---- MODULE Spec2Model ----
(***************************************************************************)
(* Model of transcribe_audio.py: setup_ffmpeg, transcribe_audio and main.  *)
(*                                                                         *)
(* The speech-recognition capability (whisper.load_model and               *)
(* model.transcribe) and the filesystem are the environment: the           *)
(* capability either raises an Exception subclass or returns a dictionary  *)
(* with any subset of the keys text / language / segments, and files of    *)
(* the working directory may disappear between two steps of the program.   *)
(*                                                                         *)
(* Python values are encoded as records: [kind |-> "None"],                *)
(* [kind |-> "str", val |-> s] and [kind |-> "dict", val |-> f] where f is *)
(* a function whose domain is the set of keys of the dictionary.           *)
(* Segment times are floats of the form n/8 seconds (exactly representable *)
(* in binary), held as the integer n.                                      *)
(***************************************************************************)
EXTENDS Integers, Sequences, FiniteSets, TLC

\* ---------------------------------------------------------------- bounds
MaxFiles == 2      \* files in the working directory when the run starts
MaxVanish == 1     \* files that disappear during one run
MaxSegs == 2       \* segments the capability returns

\* ------------------------------------------------------- Python values
PyNone == [kind |-> "None"]
PyStr(s) == [kind |-> "str", val |-> s]
PyDict(d) == [kind |-> "dict", val |-> d]

\* truth value of an object, as tested by `if x:` / `not x`
Truthy(v) ==
    CASE v.kind = "None" -> FALSE
      [] v.kind = "str"  -> v.val # ""
      [] v.kind = "dict" -> DOMAIN v.val # {}

\* d[k] raises KeyError when the key is missing
KeyError(d, k) == k \notin DOMAIN d

\* d.get(k, default)
DictGet(d, k, default) == IF k \in DOMAIN d THEN d[k] ELSE default

\* ------------------------------------------------------------ f-strings
Pad2(n) == IF n < 10 THEN "0" \o ToString(n) ELSE ToString(n)

\* f"{x:.2f}" for the float x = n/8: the exact value is n*12.5 hundredths,
\* an exact tie when n is odd, which the correctly rounded conversion
\* resolves to the even neighbour.
Fmt2f(n) ==
    LET twice == n * 25
        q == twice \div 2
        cents == IF twice % 2 = 1 /\ q % 2 = 1 THEN q + 1 ELSE q
    IN  ToString(cents \div 100) \o "." \o Pad2(cents % 100)

RECURSIVE JoinNames(_)
JoinNames(s) ==
    IF s = <<>> THEN ""
    ELSE "'" \o Head(s) \o "'" \o
         (IF Len(s) = 1 THEN "" ELSE ", " \o JoinNames(Tail(s)))

Rule50 == "=================================================="

\* ----------------------------------------------------------- filesystem
\* a directory entry: name = stem + ext, with its size in bytes
File(stem, ext, size) == [stem |-> stem, ext |-> ext, size |-> size]

DirUniverse ==
    { File("a", ".mp3", 1024), File("b", ".wav", 0), File("c", ".wav", 2048),
      File("d", ".MP3", 512), File("notes", ".txt", 10) }

\* str(path)
PathStr(f) == f.stem \o f.ext

FfmpegDir == "ffmpeg-master-latest-win64-gpl/bin"
SystemDir == "/usr/bin"
OutputFile == "whisper_transcript.txt"

audio_extensions == <<".mp3", ".wav", ".m4a", ".flac", ".ogg">>

\* Path('.').glob('*' + ext): the entries whose name ends with ext
GlobMatches_all(f, ext) == TRUE
GlobMatches(f, ext) == f.ext = ext

Glob(entries, ext) == { f \in entries : GlobMatches(f, ext) }

\* the enumeration order of a directory is not specified
Orderings(S) ==
    { s \in [1..Cardinality(S) -> S] : \A i, j \in DOMAIN s : i # j => s[i] # s[j] }

\* os.path.exists(p) for a path string p relative to the working directory
os_path_exists_always(entries, p) == TRUE
os_path_exists(entries, p) == \E f \in entries : PathStr(f) = p

\* os.path.getsize(p) stats the path and raises FileNotFoundError if it is gone
getsize_raises(entries, p) == ~ \E f \in entries : PathStr(f) = p

\* ------------------------------------------------------------ capability
\* Exception subclasses, which `except Exception` catches
ExceptionClasses ==
    {"FileNotFoundError", "RuntimeError", "MemoryError", "KeyError", "IndexError"}

\* what whisper.load_model / model.transcribe may raise
CapabilityErrors == {"RuntimeError", "MemoryError"}

Segment(start, end, text) == [start |-> start, end |-> end, text |-> text]

SegmentPool == { Segment(0, 20, " hello"), Segment(20, 29, " world") }

SegmentLists == UNION { [1..n -> SegmentPool] : n \in 0..MaxSegs }

ResultKeys == {"text", "language", "segments"}

\* the dictionaries model.transcribe may return
Results ==
    { [k \in D |-> IF k = "text" THEN t ELSE IF k = "language" THEN "en" ELSE s] :
        D \in SUBSET ResultKeys, t \in {"", " hello world"}, s \in SegmentLists }

ModelSizes == {"base", "tiny"}
Languages == {PyNone, PyStr(""), PyStr("en")}
RequestPaths == { PathStr(f) : f \in DirUniverse }

\* ---------------------------------------------------------------- state
VARIABLES
    entry,          \* the function the process called: "main" or "transcribe_audio"
    pc,             \* position of the program
    ffmpeg_dir,     \* whether <script dir>/ffmpeg-master-latest-win64-gpl/bin exists
    PATH,           \* os.environ['PATH'], as the sequence of its entries
    dir,            \* the audio files' directory: set of entries
    dir0,           \* the directory when the run started
    vanished,       \* number of entries that disappeared during the run
    out,            \* whisper_transcript.txt: [exists, lines]
    out0,           \* whisper_transcript.txt when the run started
    console,        \* lines printed to the operator
    log,            \* calls made to the filesystem and to the capability
    ext_i,          \* main: index of the extension loop
    audio_files,    \* main: the discovered paths
    audio_file,     \* main: the selected path string
    request,        \* transcribe_audio: its arguments
    exists_at_call, \* whether audio_path existed when transcribe_audio was called
    pending,        \* transcribe_audio: the exception raised inside the try block
    cap,            \* outcome of the capability
    ta_ret,         \* what transcribe_audio returned
    seg_i,          \* main: index of the segment loop
    exc             \* the exception that left the called function, "" if none

vars == <<entry, pc, ffmpeg_dir, PATH, dir, dir0, vanished, out, out0, console, log,
          ext_i, audio_files, audio_file, request, exists_at_call, pending, cap,
          ta_ret, seg_i, exc>>

Unset == [kind |-> "unset"]
NoFile == [exists |-> FALSE, lines |-> <<>>]
StaleFile == [exists |-> TRUE, lines |-> <<"an earlier run">>]

Terminal == {"done", "crashed", "returned", "raised"}

Say(line) == console' = Append(console, line)
SayAll(lines) == console' = console \o lines
Logged(call) == log' = Append(log, call)

Init ==
    /\ entry \in {"main", "transcribe_audio"}
    /\ ffmpeg_dir \in BOOLEAN
    /\ PATH \in {<<SystemDir>>, <<FfmpegDir, SystemDir>>}
    /\ dir \in { S \in SUBSET DirUniverse : Cardinality(S) <= MaxFiles }
    /\ dir0 = dir
    /\ vanished = 0
    /\ out \in {NoFile, StaleFile}
    /\ out0 = out
    /\ console = <<>>
    /\ log = <<>>
    /\ ext_i = 1
    /\ audio_files = <<>>
    /\ audio_file = ""
    /\ IF entry = "main"
       THEN /\ request = Unset
            /\ pc = "setup"
       ELSE /\ request \in [audio_path : RequestPaths, model_size : ModelSizes,
                            language : Languages]
            /\ pc = "ta_enter"
    /\ exists_at_call = FALSE
    /\ pending = Unset
    /\ cap = Unset
    /\ ta_ret = Unset
    /\ seg_i = 0
    /\ exc = ""

\* ------------------------------------------------------------ environment
\* an entry of the directory disappears while the program runs
Vanish ==
    /\ pc \notin Terminal
    /\ vanished < MaxVanish
    /\ \E f \in dir : dir' = dir \ {f}
    /\ vanished' = vanished + 1
    /\ UNCHANGED <<entry, pc, ffmpeg_dir, PATH, dir0, out, out0, console, log, ext_i,
                   audio_files, audio_file, request, exists_at_call, pending, cap,
                   ta_ret, seg_i, exc>>

\* ----------------------------------------------------------- setup_ffmpeg
\* the value setup_ffmpeg returns
setup_ffmpeg_true == TRUE
setup_ffmpeg == ffmpeg_dir

\* `ffmpeg_path not in os.environ['PATH']`
InPATH(p) == \E i \in DOMAIN PATH : PATH[i] = p

\* main: `if not setup_ffmpeg(): return`
Setup ==
    /\ pc = "setup"
    /\ IF ffmpeg_dir
       THEN IF ~InPATH(FfmpegDir)
            THEN /\ PATH' = <<FfmpegDir>> \o PATH
                 /\ Say("Added ffmpeg to PATH: " \o FfmpegDir)
            ELSE UNCHANGED <<PATH, console>>
       ELSE /\ Say("FFmpeg not found in project directory. Please install ffmpeg.")
            /\ UNCHANGED PATH
    /\ pc' = IF setup_ffmpeg THEN "scan" ELSE "done"
    /\ UNCHANGED <<entry, ffmpeg_dir, dir, dir0, vanished, out, out0, log, ext_i,
                   audio_files, audio_file, request, exists_at_call, pending, cap,
                   ta_ret, seg_i, exc>>

\* ------------------------------------------------------------------ main
\* one iteration of `for ext in audio_extensions: audio_files.extend(glob)`
Scan ==
    /\ pc = "scan"
    /\ \E s \in Orderings(Glob(dir, audio_extensions[ext_i])) :
          audio_files' = audio_files \o s
    /\ Logged([op |-> "glob", arg |-> "*" \o audio_extensions[ext_i]])
    /\ IF ext_i < Len(audio_extensions)
       THEN /\ ext_i' = ext_i + 1
            /\ pc' = "scan"
       ELSE /\ ext_i' = ext_i
            /\ pc' = "check_files"
    /\ UNCHANGED <<entry, ffmpeg_dir, PATH, dir, dir0, vanished, out, out0, console,
                   audio_file, request, exists_at_call, pending, cap, ta_ret, seg_i,
                   exc>>

\* `if not audio_files: ... return`, then the banner
CheckFiles ==
    /\ pc = "check_files"
    /\ IF audio_files = <<>>
       THEN /\ Say("No audio files found in current directory")
            /\ pc' = "done"
       ELSE /\ SayAll(<<"Found audio files: [" \o
                          JoinNames([i \in DOMAIN audio_files |->
                                        PathStr(audio_files[i])]) \o "]",
                        Rule50, "Testing Whisper BASE model", Rule50>>)
            /\ pc' = "select"
    /\ UNCHANGED <<entry, ffmpeg_dir, PATH, dir, dir0, vanished, out, out0, log, ext_i,
                   audio_files, audio_file, request, exists_at_call, pending, cap,
                   ta_ret, seg_i, exc>>

\* the element of audio_files the run uses
Selected_last(files) == files[Len(files)]
Selected(files) == files[1]

\* `audio_file = str(audio_files[0])`
Select ==
    /\ pc = "select"
    /\ audio_file' = PathStr(Selected(audio_files))
    /\ Say("Using audio file: " \o PathStr(Selected(audio_files)))
    /\ pc' = "stat"
    /\ UNCHANGED <<entry, ffmpeg_dir, PATH, dir, dir0, vanished, out, out0, log, ext_i,
                   audio_files, request, exists_at_call, pending, cap, ta_ret, seg_i,
                   exc>>

\* the two prints of os.path.exists(audio_file) and os.path.getsize(audio_file);
\* getsize raises FileNotFoundError outside any try block
Stat ==
    /\ pc = "stat"
    /\ log' = log \o <<[op |-> "exists", arg |-> audio_file],
                       [op |-> "getsize", arg |-> audio_file]>>
    /\ IF ~getsize_raises(dir, audio_file)
       THEN /\ SayAll(<<IF os_path_exists(dir, audio_file)
                        THEN "File exists: True" ELSE "File exists: False",
                        "File size: " \o
                          ToString((CHOOSE f \in dir : PathStr(f) = audio_file).size)
                          \o " bytes">>)
            /\ pc' = "ta_enter"
            /\ exc' = exc
       ELSE /\ Say(IF os_path_exists(dir, audio_file)
                   THEN "File exists: True" ELSE "File exists: False")
            /\ pc' = "crashed"
            /\ exc' = "FileNotFoundError"
    /\ UNCHANGED <<entry, ffmpeg_dir, PATH, dir, dir0, vanished, out, out0, ext_i,
                   audio_files, audio_file, request, exists_at_call, pending, cap,
                   ta_ret, seg_i>>

\* ------------------------------------------------------- transcribe_audio
\* where control goes when transcribe_audio returns
AfterReturn == IF entry = "main" THEN "check_result" ELSE "returned"

\* the call (main passes only audio_file and model_size="base"), then
\* `if not os.path.exists(audio_path): raise FileNotFoundError(...)`
TaEnter ==
    /\ pc = "ta_enter"
    /\ LET req == IF entry = "main"
                  THEN [audio_path |-> audio_file, model_size |-> "base",
                        language |-> PyNone]
                  ELSE request
       IN  /\ request' = req
           /\ exists_at_call' = (\E f \in dir : PathStr(f) = req.audio_path)
           /\ Logged([op |-> "exists", arg |-> req.audio_path])
           /\ IF os_path_exists(dir, req.audio_path)
              THEN /\ Say("Loading Whisper model: " \o req.model_size)
                   /\ pending' = pending
                   /\ pc' = "ta_load"
              ELSE /\ pending' = [type |-> "FileNotFoundError",
                                  msg |-> "Audio file not found: " \o req.audio_path]
                   /\ console' = console
                   /\ pc' = "ta_except"
    /\ UNCHANGED <<entry, ffmpeg_dir, PATH, dir, dir0, vanished, out, out0, ext_i,
                   audio_files, audio_file, cap, ta_ret, seg_i, exc>>

\* `model = whisper.load_model(model_size)`
TaLoad ==
    /\ pc = "ta_load"
    /\ Logged([op |-> "load_model", arg |-> request.model_size])
    /\ \/ /\ Say("Transcribing: " \o request.audio_path)
          /\ pc' = "ta_transcribe"
          /\ UNCHANGED <<pending, cap>>
       \/ \E e \in CapabilityErrors :
             /\ pending' = [type |-> e, msg |-> "model load failed"]
             /\ cap' = [kind |-> "raised", op |-> "load_model", type |-> e]
             /\ pc' = "ta_except"
             /\ console' = console
    /\ UNCHANGED <<entry, ffmpeg_dir, PATH, dir, dir0, vanished, out, out0, ext_i,
                   audio_files, audio_file, request, exists_at_call, ta_ret, seg_i,
                   exc>>

\* the keyword arguments of the call to model.transcribe:
\* `if language: transcribe(audio_path, language=language)`
\* `else: transcribe(audio_path)`
TranscribeKwargs_always(language) == {<<"language", language>>}
TranscribeKwargs(language) ==
    IF Truthy(language) THEN {<<"language", language>>} ELSE {}

\* `result = model.transcribe(...)`, `return result`
TaTranscribe ==
    /\ pc = "ta_transcribe"
    /\ Logged([op |-> "transcribe", arg |-> request.audio_path,
               kwargs |-> TranscribeKwargs(request.language)])
    /\ \/ \E r \in Results :
             /\ cap' = PyDict(r)
             /\ ta_ret' = PyDict(r)
             /\ pc' = AfterReturn
             /\ pending' = pending
       \/ \E e \in CapabilityErrors :
             /\ pending' = [type |-> e, msg |-> "decoding failed"]
             /\ cap' = [kind |-> "raised", op |-> "transcribe", type |-> e]
             /\ pc' = "ta_except"
             /\ ta_ret' = ta_ret
    /\ UNCHANGED <<entry, ffmpeg_dir, PATH, dir, dir0, vanished, out, out0, console,
                   ext_i, audio_files, audio_file, request, exists_at_call, seg_i,
                   exc>>

\* `except Exception as e:`
Catches_only_missing_file(type) == type = "FileNotFoundError"
Catches(type) == type \in ExceptionClasses

\* what the handler returns
HandlerReturn_error_text == PyDict([text |-> "error"])
HandlerReturn == PyNone

\* the handler: two messages and `return None`
TaExcept ==
    /\ pc = "ta_except"
    /\ IF Catches(pending.type)
       THEN /\ SayAll(<<"Error with " \o request.model_size \o " model: " \o pending.msg,
                        "Error type: " \o pending.type>>)
            /\ ta_ret' = HandlerReturn
            /\ pc' = AfterReturn
            /\ exc' = exc
       ELSE /\ exc' = pending.type
            /\ pc' = IF entry = "main" THEN "crashed" ELSE "raised"
            /\ UNCHANGED <<console, ta_ret>>
    /\ UNCHANGED <<entry, ffmpeg_dir, PATH, dir, dir0, vanished, out, out0, log, ext_i,
                   audio_files, audio_file, request, exists_at_call, pending, cap,
                   seg_i>>

\* --------------------------------------------------------- main, the report
\* `if result: ... else: print("Transcription failed!")`
CheckResult ==
    /\ pc = "check_result"
    /\ IF Truthy(ta_ret)
       THEN /\ pc' = "show_result"
            /\ console' = console
       ELSE /\ Say("Transcription failed!")
            /\ pc' = "done"
    /\ UNCHANGED <<entry, ffmpeg_dir, PATH, dir, dir0, vanished, out, out0, log, ext_i,
                   audio_files, audio_file, request, exists_at_call, pending, cap,
                   ta_ret, seg_i, exc>>

\* the success banner; result['text'] raises KeyError outside any try block
ShowResult ==
    /\ pc = "show_result"
    /\ IF KeyError(ta_ret.val, "text")
       THEN /\ SayAll(<<"", Rule50, "TRANSCRIPTION SUCCESSFUL!", Rule50>>)
            /\ pc' = "crashed"
            /\ exc' = "KeyError"
       ELSE /\ SayAll(<<"", Rule50, "TRANSCRIPTION SUCCESSFUL!", Rule50,
                        "Text: " \o ta_ret.val["text"],
                        "Language: " \o DictGet(ta_ret.val, "language", "Unknown"),
                        "Segments: " \o
                          ToString(Len(DictGet(ta_ret.val, "segments", <<>>)))>>)
            /\ pc' = "open"
            /\ exc' = exc
    /\ UNCHANGED <<entry, ffmpeg_dir, PATH, dir, dir0, vanished, out, out0, log, ext_i,
                   audio_files, audio_file, request, exists_at_call, pending, cap,
                   ta_ret, seg_i>>

\* `with open(output_file, "w", encoding="utf-8") as f:` creates or truncates
Open ==
    /\ pc = "open"
    /\ out' = [exists |-> TRUE, lines |-> <<>>]
    /\ Logged([op |-> "open", arg |-> OutputFile])
    /\ pc' = "write_header"
    /\ UNCHANGED <<entry, ffmpeg_dir, PATH, dir, dir0, vanished, out0, console, ext_i,
                   audio_files, audio_file, request, exists_at_call, pending, cap,
                   ta_ret, seg_i, exc>>

\* the six f.write calls of the header
WriteHeader ==
    /\ pc = "write_header"
    /\ LET head == <<"WHISPER TRANSCRIPTION RESULTS", Rule50,
                     "Audio file: " \o audio_file, "Model: base",
                     "Language: " \o DictGet(ta_ret.val, "language", "Unknown")>>
       IN  IF KeyError(ta_ret.val, "text")
           THEN /\ out' = [out EXCEPT !.lines = @ \o head]
                /\ pc' = "crashed"
                /\ exc' = "KeyError"
           ELSE /\ out' = [out EXCEPT !.lines =
                              @ \o head \o <<"Text: " \o ta_ret.val["text"]>>]
                /\ pc' = "seg_check"
                /\ exc' = exc
    /\ UNCHANGED <<entry, ffmpeg_dir, PATH, dir, dir0, vanished, out0, console, log,
                   ext_i, audio_files, audio_file, request, exists_at_call, pending,
                   cap, ta_ret, seg_i>>

\* `if 'segments' in result:`
HasSegments_nonempty(d) == "segments" \in DOMAIN d /\ d["segments"] # <<>>
HasSegments(d) == "segments" \in DOMAIN d

\* the segments header line, written only under that test
SegCheck ==
    /\ pc = "seg_check"
    /\ IF HasSegments(ta_ret.val)
       THEN /\ out' = [out EXCEPT !.lines = @ \o <<"", "Detailed segments:">>]
            /\ pc' = "write_seg"
       ELSE /\ out' = out
            /\ pc' = "close"
    /\ seg_i' = 0
    /\ UNCHANGED <<entry, ffmpeg_dir, PATH, dir, dir0, vanished, out0, console, log,
                   ext_i, audio_files, audio_file, request, exists_at_call, pending,
                   cap, ta_ret, exc>>

\* the ordinal shown for the segment enumerate() numbers i
Ordinal_zero_based(i) == i
Ordinal(i) == i + 1

\* one iteration of `for i, segment in enumerate(result['segments']):`
WriteSeg ==
    /\ pc = "write_seg"
    /\ LET segments == DictGet(ta_ret.val, "segments", <<>>)
       IN  IF seg_i < Len(segments)
           THEN LET segment == segments[seg_i + 1]
                IN  /\ out' = [out EXCEPT !.lines = @ \o
                                 <<"", "Segment " \o ToString(Ordinal(seg_i)) \o ":",
                                   "  Start: " \o Fmt2f(segment.start) \o "s",
                                   "  End: " \o Fmt2f(segment.end) \o "s",
                                   "  Text: " \o segment.text>>]
                    /\ seg_i' = seg_i + 1
                    /\ pc' = "write_seg"
           ELSE /\ pc' = "close"
                /\ UNCHANGED <<out, seg_i>>
    /\ UNCHANGED <<entry, ffmpeg_dir, PATH, dir, dir0, vanished, out0, console, log,
                   ext_i, audio_files, audio_file, request, exists_at_call, pending,
                   cap, ta_ret, exc>>

\* leaving the with block, then the closing message
Close ==
    /\ pc = "close"
    /\ SayAll(<<"", "Results saved to: " \o OutputFile>>)
    /\ pc' = "done"
    /\ UNCHANGED <<entry, ffmpeg_dir, PATH, dir, dir0, vanished, out, out0, log, ext_i,
                   audio_files, audio_file, request, exists_at_call, pending, cap,
                   ta_ret, seg_i, exc>>

Next ==
    \/ Vanish
    \/ Setup
    \/ Scan
    \/ CheckFiles
    \/ Select
    \/ Stat
    \/ TaEnter
    \/ TaLoad
    \/ TaTranscribe
    \/ TaExcept
    \/ CheckResult
    \/ ShowResult
    \/ Open
    \/ WriteHeader
    \/ SegCheck
    \/ WriteSeg
    \/ Close

Spec == Init /\ [][Next]_vars

\* ================================================================ properties
Ops(names) == { i \in DOMAIN log : log[i].op \in names }

\* neither load_model nor transcribe has been called
NoCapabilityCall == Ops({"load_model", "transcribe"}) = {}

\* whisper_transcript.txt has been neither opened nor changed
ReportUntouched == Ops({"open"}) = {} /\ out = out0

\* main has ended, by returning or by an exception leaving it
RunEnded == entry = "main" /\ pc \in {"done", "crashed"}

\* transcribe_audio has been called
TaCalled ==
    /\ pc \notin {"setup", "scan", "check_files", "select", "stat", "ta_enter"}
    /\ request # Unset

\* the capability returned a transcription: a dictionary carrying its text
FullySucceeded == cap.kind = "dict" /\ "text" \in DOMAIN cap.val

\* the five lines of the k-th entry of the segment block
SegmentEntries(segments) ==
    [ j \in 1..(5 * Len(segments)) |->
        LET k == ((j - 1) \div 5) + 1
            r == (j - 1) % 5
        IN  CASE r = 0 -> ""
              [] r = 1 -> "Segment " \o ToString(k) \o ":"
              [] r = 2 -> "  Start: " \o Fmt2f(segments[k].start) \o "s"
              [] r = 3 -> "  End: " \o Fmt2f(segments[k].end) \o "s"
              [] r = 4 -> "  Text: " \o segments[k].text ]

\* the whole report of the result d for the input path
CompleteReport(path, d) ==
    <<"WHISPER TRANSCRIPTION RESULTS", Rule50, "Audio file: " \o path, "Model: base",
      "Language: " \o (IF "language" \in DOMAIN d THEN d["language"] ELSE "Unknown"),
      "Text: " \o d["text"]>>
    \o (IF "segments" \in DOMAIN d
        THEN <<"", "Detailed segments:">> \o SegmentEntries(d["segments"])
        ELSE <<>>)

HeaderLine == "Detailed segments:"
HeaderAt(lines) == { i \in DOMAIN lines : lines[i] = HeaderLine }

\* the lines that follow the "Detailed segments:" line
SegmentBlock(lines) ==
    IF HeaderAt(lines) = {} THEN <<>>
    ELSE SubSeq(lines, (CHOOSE i \in HeaderAt(lines) : TRUE) + 1, Len(lines))

\* the segments the capability returned, none if it reported no such key
ReturnedSegments == IF "segments" \in DOMAIN cap.val THEN cap.val["segments"] ELSE <<>>

\* main ended after writing the report
ReportWritten == RunEnded /\ pc = "done" /\ Ops({"open"}) # {}

\* C1: when a run of main() that started without whisper_transcript.txt ends,
\* cleanly or not, the file exists exactly when the capability returned a
\* transcription, and then it holds the complete report.
C1_ReportIffSuccess ==
    (RunEnded /\ out0 = NoFile) =>
        /\ out.exists <=> FullySucceeded
        /\ out.exists => out.lines = CompleteReport(audio_file, cap.val)

C1_Witness ==
    /\ RunEnded /\ out0 = NoFile /\ out.exists
    /\ Len(ReturnedSegments) = 2
    /\ "language" \notin DOMAIN cap.val

\* C2: if load_model or transcribe raised, transcribe_audio returns None and
\* raises nothing, and the report file is neither created nor changed.
C2_RaiseGivesNone ==
    cap.kind = "raised" =>
        /\ ReportUntouched
        /\ exc = "" /\ pc \notin {"raised", "crashed"}
        /\ pc # "ta_except" => ta_ret = PyNone

C2_Witness ==
    /\ cap.kind = "raised" /\ cap.op = "load_model"
    /\ entry = "main" /\ pc = "done" /\ ta_ret = PyNone

\* C3: when audio_path does not exist as transcribe_audio is called, the
\* call fails with FileNotFoundError, returns None, calls neither load_model
\* nor transcribe, and no report is written.
C3_MissingInput ==
    (TaCalled /\ ~exists_at_call) =>
        /\ NoCapabilityCall
        /\ ReportUntouched
        /\ pending # Unset /\ pending.type = "FileNotFoundError"
        /\ exc = ""
        /\ pc # "ta_except" => ta_ret = PyNone

C3_Witness ==
    /\ TaCalled /\ ~exists_at_call /\ entry = "main" /\ pc = "done"
    /\ ta_ret = PyNone

\* C4: no exception leaves main(), also when the selected file disappears
\* between the scan and the transcription.
C4_NoExceptionLeavesMain == entry = "main" => pc # "crashed"

\* C5: if the directory holds no file with an allow-listed extension, or
\* the scan found none, the run ends without calling load_model or
\* transcribe and without writing the report.
AllowList == {".mp3", ".wav", ".m4a", ".flac", ".ogg"}

C5_NoInputNoCall ==
    (/\ entry = "main"
     /\ \/ \A f \in dir0 : f.ext \notin AllowList
        \/ pc \notin {"setup", "scan"} /\ audio_files = <<>>) =>
        /\ NoCapabilityCall
        /\ ReportUntouched
        /\ pc \in {"setup", "scan", "check_files", "done"}

C5_Witness ==
    /\ entry = "main" /\ pc = "done" /\ ffmpeg_dir
    /\ dir0 # {} /\ audio_files = <<>>
    /\ Cardinality(Ops({"glob"})) = 5
    /\ NoCapabilityCall

\* C6: a run uses one input, the first element of the discovered sequence,
\* and calls load_model and transcribe at most once each.
C6_FirstOnlyOnce ==
    entry = "main" =>
        /\ Cardinality(Ops({"load_model"})) <= 1
        /\ Cardinality(Ops({"transcribe"})) <= 1
        /\ \A i \in Ops({"exists", "getsize", "transcribe"}) :
              log[i].arg = PathStr(audio_files[1])
        /\ request # Unset => request.audio_path = PathStr(audio_files[1])

C6_Witness ==
    /\ entry = "main" /\ pc = "done"
    /\ Len(audio_files) = 2 /\ audio_files[1] # audio_files[2]
    /\ PathStr(audio_files[1]) = "a.mp3" /\ PathStr(audio_files[2]) = "b.wav"
    /\ Cardinality(Ops({"transcribe"})) = 1

\* C7: when setup_ffmpeg returns False the run ends before any scan, any
\* existence or size check, any capability call and any report; a
\* capability call happens only when the decoder directory was found.
C7_DecoderGate ==
    entry = "main" =>
        /\ ~ffmpeg_dir => log = <<>> /\ out = out0 /\ pc \in {"setup", "done"}
        /\ ~NoCapabilityCall => ffmpeg_dir

C7_Witness ==
    /\ entry = "main" /\ ~ffmpeg_dir /\ pc = "done"
    /\ \E f \in dir : f.ext \in AllowList

\* C8 as stated: every report of a result with zero segments, the segments
\* being empty or not reported at all, ends with the line
\* "Detailed segments:".
C8_Original ==
    (ReportWritten /\ ReturnedSegments = <<>>) =>
        /\ HeaderAt(out.lines) # {}
        /\ SegmentBlock(out.lines) = <<>>

\* C8 amended: when the result reports an empty segments list the report
\* ends with the single line "Detailed segments:"; when it reports no
\* segments key the report has no such line and no segment entry.
C8_Amended ==
    (ReportWritten /\ ReturnedSegments = <<>>) =>
        IF "segments" \in DOMAIN cap.val
        THEN /\ Cardinality(HeaderAt(out.lines)) = 1
             /\ out.lines[Len(out.lines)] = HeaderLine
        ELSE /\ HeaderAt(out.lines) = {}
             /\ Len(out.lines) = 6

C8_Witness ==
    /\ ReportWritten
    /\ "segments" \in DOMAIN cap.val /\ cap.val["segments"] = <<>>
    /\ out.lines[Len(out.lines)] = HeaderLine

\* C9: the segment block of the report lists the n returned segments in
\* return order, the k-th entry being "Segment k:" followed by the Start,
\* End and Text lines of the k-th segment.
C9_SegmentBlock ==
    ReportWritten =>
        /\ SegmentBlock(out.lines) = SegmentEntries(ReturnedSegments)
        /\ Cardinality({ i \in DOMAIN out.lines :
                           \E k \in 1..Len(out.lines) :
                              out.lines[i] = "Segment " \o ToString(k) \o ":" })
             = Len(ReturnedSegments)

C9_Witness ==
    /\ ReportWritten
    /\ Len(ReturnedSegments) = 2
    /\ ReturnedSegments[1] # ReturnedSegments[2]
    /\ SubSeq(SegmentBlock(out.lines), 2, 5) =
          <<"Segment 1:", "  Start: 0.00s", "  End: 2.50s", "  Text:  hello">>
    /\ SegmentBlock(out.lines)[9] = "  End: 3.62s"

\* C10: model.transcribe receives the language keyword exactly when the
\* request carries a language code, with that code as its value, and never
\* receives it as None.
LanguageCodes == {"en"}

C10_LanguageKeyword ==
    \A i \in Ops({"transcribe"}) :
        /\ request.language = PyNone => log[i].kwargs = {}
        /\ (request.language.kind = "str" /\ request.language.val \in LanguageCodes)
              => log[i].kwargs = {<<"language", request.language>>}
        /\ \A kw \in log[i].kwargs : kw[2] # PyNone

C10_Witness ==
    /\ entry = "transcribe_audio" /\ pc = "returned"
    /\ request.language = PyStr("en")
    /\ \E i \in Ops({"transcribe"}) : log[i].kwargs = {<<"language", PyStr("en")>>}
====
